---- MODULE Spec2Model ----
(***************************************************************************)
(* Model of scripts/perf/summarize_and_compare.py: the JMeter result       *)
(* aggregation, the moving-average baseline, the threshold classification  *)
(* and the history ledger of the GrepWise performance gate.                *)
(*                                                                         *)
(* Floating point numbers are modelled as exact rationals num/den plus the *)
(* NaN value; the text of a number in a CSV file is modelled by the value  *)
(* it denotes, with kind "bad" for text float() rejects.                   *)
(***************************************************************************)
EXTENDS Integers, Sequences, FiniteSets, TLC

VARIABLES
    pc,            \* position of the process inside main()
    RUN_NUMBER,    \* GITHUB_RUN_NUMBER of the current invocation
    RESULTS_DIR,   \* file stem -> [present, rows] of target/jmeter/results/*.csv
    scenarios,     \* main: scenarios dict, in insertion order
    history,       \* main: list returned by read_history()
    summary,       \* main: summary['scenarios'], in insertion order
    worst_level,   \* main: worst_level
    HISTORY_FILE,  \* docs/perf/history.csv : [exists, rows]
    SUMMARY_JSON,  \* target/jmeter/perf-summary.json
    SUMMARY_MD,    \* target/jmeter/perf-summary.md
    BADGE_SVG,     \* docs/perf/badge.svg
    exit_code,     \* value main() returned, -1 while it runs
    pValues, pP, pOut,     \* percentile(values, p) and its result
    cBase, cCur, cOut,     \* classification of (avg_p95, cur_p95) and its result
    bHist, bOut,           \* baseline of a history list and its result
    aRows, aOut            \* aggregate of the rows of one result file

runVars == <<pc, RUN_NUMBER, RESULTS_DIR, scenarios, history, summary, worst_level,
             HISTORY_FILE, SUMMARY_JSON, SUMMARY_MD, BADGE_SVG, exit_code>>
pctVars == <<pValues, pP, pOut>>
clsVars == <<cBase, cCur, cOut>>
bslVars == <<bHist, bOut>>
aggVars == <<aRows, aOut>>
vars == <<runVars, pctVars, clsVars, bslVars, aggVars>>

(***************************************************************************)
(* Bounds of the model.                                                    *)
(***************************************************************************)
MaxRuns == 2     \* invocations of main()
MaxLen == 4      \* length of the list given to percentile
MaxCur == 130    \* largest current p95 given to the classifier
MaxHist == 15    \* length of the history list given to the baseline
MaxNoise == 2    \* history records of that list that are not valid matches
MaxRows == 2     \* rows of the result file given to the aggregator

(***************************************************************************)
(* Arithmetic on floats: exact rationals and NaN.                          *)
(***************************************************************************)
Abs(n) == IF n < 0 THEN -n ELSE n

RECURSIVE Gcd(_, _)
Gcd(a, b) == IF b = 0 THEN a ELSE Gcd(b, a % b)

\* the float n/d, d > 0, in lowest terms
Rat(n, d) ==
    LET g == Gcd(Abs(n), d)
    IN  [k |-> "num", num |-> n \div g, den |-> d \div g]

Num(n) == Rat(n, 1)
NaN == [k |-> "nan", num |-> 0, den |-> 1]
isnan(x) == x.k = "nan"

\* comparisons with NaN are False
Gt(x, y) == x.k = "num" /\ y.k = "num" /\ x.num * y.den > y.num * x.den
Le(x, y) == x.k = "num" /\ y.k = "num" /\ x.num * y.den <= y.num * x.den

Add(x, y) ==
    IF isnan(x) \/ isnan(y) THEN NaN
    ELSE Rat(x.num * y.den + y.num * x.den, x.den * y.den)
Sub(x, y) ==
    IF isnan(x) \/ isnan(y) THEN NaN
    ELSE Rat(x.num * y.den - y.num * x.den, x.den * y.den)
Mul(x, y) ==
    IF isnan(x) \/ isnan(y) THEN NaN
    ELSE Rat(x.num * y.num, x.den * y.den)
\* y is not zero
Div(x, y) ==
    IF isnan(x) \/ isnan(y) THEN NaN
    ELSE IF y.num > 0 THEN Rat(x.num * y.den, x.den * y.num)
    ELSE Rat(-(x.num * y.den), x.den * (-y.num))

RECURSIVE SumSeq(_)
SumSeq(s) == IF s = <<>> THEN Num(0) ELSE Add(Head(s), SumSeq(Tail(s)))

\* statistics.mean of a non-empty list
mean(s) == Div(SumSeq(s), Num(Len(s)))

RECURSIVE Pow10(_)
Pow10(n) == IF n = 0 THEN 1 ELSE 10 * Pow10(n - 1)

\* n/d, n >= 0, rounded to the nearest integer, ties to even
RoundHalfEven(n, d) ==
    LET q == n \div d
        r == n % d
    IN  IF 2 * r < d THEN q
        ELSE IF 2 * r > d THEN q + 1
        ELSE IF q % 2 = 0 THEN q ELSE q + 1

\* the number denoted by f"{x:.<digits>f}": "nan" for NaN, else x rounded
FormatFloat(x, digits) ==
    IF isnan(x) THEN NaN
    ELSE Rat(RoundHalfEven(x.num * Pow10(digits), x.den), Pow10(digits))

\* text of a CSV field that float() rejects
BadText == [k |-> "bad", num |-> 0, den |-> 1]
Parses(t) == t.k # "bad"

(***************************************************************************)
(* Thresholds.                                                             *)
(***************************************************************************)
WARN_PCT == 5
ALERT_PCT == 10
BLOCK_PCT == 20
Window == 10

(***************************************************************************)
(* percentile                                                              *)
(***************************************************************************)
RECURSIVE Insert(_, _)
Insert(x, s) ==
    IF s = <<>> THEN <<x>>
    ELSE IF x <= Head(s) THEN <<x>> \o s
    ELSE <<Head(s)>> \o Insert(x, Tail(s))

RECURSIVE sorted(_)
sorted(s) == IF s = <<>> THEN <<>> ELSE Insert(Head(s), sorted(Tail(s)))

\* the interpolation of percentile on the list vs, k = k100/100
Interpolate(vs, n, p) ==
    LET k100 == (n - 1) * p
        f == k100 \div 100
        c == IF k100 % 100 = 0 THEN f ELSE f + 1
    IN  IF f = c THEN Num(vs[f + 1])
        ELSE Rat(vs[f + 1] * (c * 100 - k100) + vs[c + 1] * (k100 - f * 100), 100)

\* a percentile that forgets to sort
percentile_unsorted(values, p) ==
    IF values = <<>> THEN NaN ELSE Interpolate(values, Len(values), p)

percentile(values, p) ==
    IF values = <<>> THEN NaN ELSE Interpolate(sorted(values), Len(values), p)

(***************************************************************************)
(* read_jmeter_csv and aggregate_samples                                   *)
(*                                                                         *)
(* A row of a result file is [elapsed, success, label], each the text of   *)
(* the field, "" when the field is empty or missing (csv.DictReader gives  *)
(* None or '' there, both falsy).                                          *)
(***************************************************************************)
NumericText == {"100", "106", "115", "130", "250"}
ElapsedText == NumericText \cup {"abc", ""}
SuccessText == {"true", "false", ""}
LabelText == {"search", "ingest", ""}

\* float() of a numeric text
float(t) ==
    CASE t = "100" -> 100
      [] t = "106" -> 106
      [] t = "115" -> 115
      [] t = "130" -> 130
      [] t = "250" -> 250

\* float(row.get('elapsed') or row.get('Elapsed') or 0) raises ValueError
Raises(row) == row.elapsed # "" /\ row.elapsed \notin NumericText

\* the sample appended for a row that does not raise
Sample(row) ==
    [elapsed |-> IF row.elapsed = "" THEN 0 ELSE float(row.elapsed),
     success |-> (IF row.success = "" THEN "false" ELSE row.success) = "true",
     label   |-> IF row.label = "" THEN "unknown" ELSE row.label]

\* a reader whose default elapsed of 0 applies to unparseable text too
RECURSIVE read_jmeter_csv_lenient(_)
read_jmeter_csv_lenient(rows) ==
    IF rows = <<>> THEN <<>>
    ELSE LET row == Head(rows)
         IN  <<Sample(IF Raises(row) THEN [row EXCEPT !.elapsed = ""] ELSE row)>>
                 \o read_jmeter_csv_lenient(Tail(rows))

RECURSIVE ReadRows(_)
ReadRows(rows) ==
    IF rows = <<>> THEN <<>>
    ELSE IF Raises(Head(rows)) THEN ReadRows(Tail(rows))
    ELSE <<Sample(Head(rows))>> \o ReadRows(Tail(rows))

read_jmeter_csv(rows) == ReadRows(rows)

RECURSIVE Elapsed(_)
Elapsed(samples) ==
    IF samples = <<>> THEN <<>> ELSE <<Head(samples).elapsed>> \o Elapsed(Tail(samples))

RECURSIVE SumInt(_)
SumInt(s) == IF s = <<>> THEN 0 ELSE Head(s) + SumInt(Tail(s))

RECURSIVE Errors(_)
Errors(samples) ==
    IF samples = <<>> THEN 0
    ELSE (IF Head(samples).success THEN 0 ELSE 1) + Errors(Tail(samples))

aggregate_samples(samples) ==
    IF samples = <<>>
    THEN [count |-> 0, avg_ms |-> NaN, p95_ms |-> NaN, throughput |-> Num(0),
          errors |-> 0, success |-> 0, err_rate |-> Num(0)]
    ELSE LET el == Elapsed(samples)
             count == Len(el)
             errors == Errors(samples)
             total == SumInt(el)       \* total_elapsed_sec = total / 1000
         IN  [count |-> count,
              avg_ms |-> Rat(total, count),
              p95_ms |-> percentile(el, 95),
              throughput |-> IF total > 0 THEN Rat(count * 1000, total) ELSE Num(0),
              errors |-> errors,
              success |-> count - errors,
              err_rate |-> Rat(errors * 100, count)]

(***************************************************************************)
(* read_history, moving_average and the baseline of a scenario             *)
(*                                                                         *)
(* A row of history.csv is [run, scenario, avg_ms, p95_ms, throughput,     *)
(* err_rate]; timestamp, commit and branch are opaque strings and left out.*)
(***************************************************************************)
RowParses(row) ==
    Parses(row.avg_ms) /\ Parses(row.p95_ms) /\ Parses(row.throughput) /\ Parses(row.err_rate)

read_history(file) ==
    IF file.exists THEN SelectSeq(file.rows, RowParses) ELSE <<>>

\* a moving average over the oldest window values
moving_average_oldest(values, window) ==
    IF values = <<>> THEN NaN
    ELSE mean(IF Len(values) > window THEN SubSeq(values, 1, window) ELSE values)

moving_average(values, window) ==
    IF values = <<>> THEN NaN
    ELSE mean(IF Len(values) > window
              THEN SubSeq(values, Len(values) - window + 1, Len(values))
              ELSE values)

hist_vals(hist, name) ==
    SelectSeq(hist, LAMBDA h : h.scenario = name /\ ~isnan(h.p95_ms) /\ Gt(h.p95_ms, Num(0)))

RECURSIVE P95s(_)
P95s(hist) == IF hist = <<>> THEN <<>> ELSE <<Head(hist).p95_ms>> \o P95s(Tail(hist))

avg_p95(hist, name) == moving_average(P95s(hist_vals(hist, name)), Window)

(***************************************************************************)
(* The classification of one scenario                                      *)
(***************************************************************************)
Band(delta_pct, level, note) == [delta_pct |-> delta_pct, level |-> level, note |-> note]

\* a classifier whose bands include their lower threshold
classify_inclusive(base, cur_p95) ==
    IF ~isnan(base) /\ Gt(base, Num(0)) /\ ~isnan(cur_p95)
    THEN LET delta_pct == Mul(Div(Sub(cur_p95, base), base), Num(100))
         IN  IF ~Gt(Num(BLOCK_PCT), delta_pct) THEN Band(delta_pct, "red", "BLOCK (>20%)")
             ELSE IF ~Gt(Num(ALERT_PCT), delta_pct) THEN Band(delta_pct, "red", "RED (>10%)")
             ELSE IF ~Gt(Num(WARN_PCT), delta_pct) THEN Band(delta_pct, "yellow", "YELLOW (>5%)")
             ELSE Band(delta_pct, "green", "OK")
    ELSE Band(NaN, "green", "no baseline")

classify(base, cur_p95) ==
    IF ~isnan(base) /\ Gt(base, Num(0)) /\ ~isnan(cur_p95)
    THEN LET delta_pct == Mul(Div(Sub(cur_p95, base), base), Num(100))
         IN  IF Gt(delta_pct, Num(BLOCK_PCT)) THEN Band(delta_pct, "red", "BLOCK (>20%)")
             ELSE IF Gt(delta_pct, Num(ALERT_PCT)) THEN Band(delta_pct, "red", "RED (>10%)")
             ELSE IF Gt(delta_pct, Num(WARN_PCT)) THEN Band(delta_pct, "yellow", "YELLOW (>5%)")
             ELSE Band(delta_pct, "green", "OK")
    ELSE Band(NaN, "green", "no baseline")

\* a fold that keeps only the level of the scenario just classified
worse_last(level, worst) == level

worse(level, worst) ==
    IF level = "red" \/ worst = "red" THEN "red"
    ELSE IF level = "yellow" \/ worst = "yellow" THEN "yellow"
    ELSE "green"

badge_color(level) ==
    CASE level = "green" -> "#4c1" [] level = "yellow" -> "#dfb317" [] level = "red" -> "#e05d44"
badge_text(level) ==
    CASE level = "green" -> "OK" [] level = "yellow" -> "WARN" [] level = "red" -> "ALERT"

\* a gate that blocks on every red scenario
should_block_on_red(scn) == \E i \in 1..Len(scn) : scn[i].level = "red"

\* 'BLOCK' in v['note'], over the notes the classifier gives
should_block(scn) ==
    \E i \in 1..Len(scn) : scn[i].level = "red" /\ scn[i].note = "BLOCK (>20%)"

(***************************************************************************)
(* main(): one invocation per CI run                                       *)
(***************************************************************************)
Stems == <<"http-search", "log-ingest">>     \* in sorted() order
StemSet == {Stems[i] : i \in 1..Len(Stems)}

Row(e, s, l) == [elapsed |-> e, success |-> s, label |-> l]
File(rows) == [present |-> TRUE, rows |-> rows]
Absent == [present |-> FALSE, rows |-> <<>>]

\* the result files a run may find under each stem
SearchFiles ==
    {Absent,
     File(<<>>),
     File(<<Row("100", "true", "search")>>),
     File(<<Row("106", "true", "search")>>),
     File(<<Row("115", "true", "search")>>),
     File(<<Row("100", "true", "search"), Row("130", "false", "ingest")>>)}
IngestFiles ==
    {Absent,
     File(<<Row("100", "true", "search")>>),
     File(<<Row("abc", "true", "ingest"), Row("106", "", "")>>),
     File(<<Row("130", "true", "ingest")>>)}
Dirs == {d \in [StemSet -> SearchFiles \cup IngestFiles] :
            d["http-search"] \in SearchFiles /\ d["log-ingest"] \in IngestFiles}

\* sorted(glob.glob(RESULTS_DIR / '*.csv')), as stems
result_files == SelectSeq(Stems, LAMBDA n : RESULTS_DIR[n].present)

NoFile == [exists |-> FALSE, rows |-> <<>>]
\* a history row whose p95_ms field is not a number
CorruptRow ==
    [run |-> 0, scenario |-> "http-search", avg_ms |-> Num(100), p95_ms |-> BadText,
     throughput |-> Num(10), err_rate |-> Num(0)]
\* a row an earlier run appended
SeedRow ==
    [run |-> 0, scenario |-> "http-search", avg_ms |-> Num(100), p95_ms |-> Num(100),
     throughput |-> Num(10), err_rate |-> Num(0)]
\* the history a first invocation finds: none, or the ledger of earlier runs
InitialHistory == {NoFile, [exists |-> TRUE, rows |-> <<CorruptRow, SeedRow>>]}

NoSummary == [exists |-> FALSE, overall |-> [level |-> "", badge |-> ""], scenarios |-> <<>>]
NoMarkdown == [exists |-> FALSE, lines |-> <<>>]
NoBadge == [exists |-> FALSE, color |-> "", label |-> ""]

RunInit ==
    /\ pc = "idle"
    /\ RUN_NUMBER = 0
    /\ RESULTS_DIR = [n \in StemSet |-> Absent]
    /\ scenarios = <<>>
    /\ history = <<>>
    /\ summary = <<>>
    /\ worst_level = "green"
    /\ SUMMARY_JSON = NoSummary
    /\ SUMMARY_MD = NoMarkdown
    /\ BADGE_SVG = NoBadge
    /\ exit_code = -1

NoOut == [done |-> FALSE, val |-> NaN]
NoBand == [done |-> FALSE, val |-> Band(NaN, "", "")]
NoAggregate == [done |-> FALSE, val |-> aggregate_samples(<<>>)]
PureInit ==
    /\ pValues = <<>> /\ pP = 0 /\ pOut = NoOut
    /\ cBase = NaN /\ cCur = NaN /\ cOut = NoBand
    /\ bHist = <<>> /\ bOut = NoOut
    /\ aRows = <<>> /\ aOut = NoAggregate

pureVars == <<pctVars, clsVars, bslVars, aggVars>>

Init == RunInit /\ HISTORY_FILE \in InitialHistory /\ PureInit

\* the CI job starts the script on the result files of its load test
Invoke(dir) ==
    /\ pc = "idle"
    /\ RUN_NUMBER < MaxRuns
    /\ pc' = "main"
    /\ RUN_NUMBER' = RUN_NUMBER + 1
    /\ RESULTS_DIR' = dir
    /\ scenarios' = <<>>
    /\ history' = <<>>
    /\ summary' = <<>>
    /\ worst_level' = "green"
    /\ exit_code' = -1
    /\ UNCHANGED <<HISTORY_FILE, SUMMARY_JSON, SUMMARY_MD, BADGE_SVG, pureVars>>

\* a run that treats an empty result directory as a failure
NoResultsFails ==
    /\ pc = "main"
    /\ result_files = <<>>
    /\ pc' = "idle"
    /\ exit_code' = 1
    /\ SUMMARY_JSON' = [NoSummary EXCEPT !.exists = TRUE]
    /\ UNCHANGED <<RUN_NUMBER, RESULTS_DIR, scenarios, history, summary, worst_level,
                   HISTORY_FILE, SUMMARY_MD, BADGE_SVG, pureVars>>

\* if not result_files: return 0
NoResults ==
    /\ pc = "main"
    /\ result_files = <<>>
    /\ pc' = "idle"
    /\ exit_code' = 0
    /\ UNCHANGED <<RUN_NUMBER, RESULTS_DIR, scenarios, history, summary, worst_level,
                   HISTORY_FILE, SUMMARY_JSON, SUMMARY_MD, BADGE_SVG, pureVars>>

RECURSIVE AllRows(_)
AllRows(names) ==
    IF names = <<>> THEN <<>> ELSE RESULTS_DIR[Head(names)].rows \o AllRows(Tail(names))

\* an aggregation that pools the samples of every result file
AggregateFilePooled ==
    /\ pc = "main"
    /\ Len(scenarios) < Len(result_files)
    /\ LET name == result_files[Len(scenarios) + 1]
           samples == read_jmeter_csv(AllRows(result_files))
       IN  scenarios' = Append(scenarios, [name |-> name, agg |-> aggregate_samples(samples)])
    /\ UNCHANGED <<pc, RUN_NUMBER, RESULTS_DIR, history, summary, worst_level,
                   HISTORY_FILE, SUMMARY_JSON, SUMMARY_MD, BADGE_SVG, exit_code, pureVars>>

\* one iteration of: for f in result_files
AggregateFile ==
    /\ pc = "main"
    /\ Len(scenarios) < Len(result_files)
    /\ LET name == result_files[Len(scenarios) + 1]
           samples == read_jmeter_csv(RESULTS_DIR[name].rows)
       IN  scenarios' = Append(scenarios, [name |-> name, agg |-> aggregate_samples(samples)])
    /\ UNCHANGED <<pc, RUN_NUMBER, RESULTS_DIR, history, summary, worst_level,
                   HISTORY_FILE, SUMMARY_JSON, SUMMARY_MD, BADGE_SVG, exit_code, pureVars>>

\* the rows main() appends to history.csv
new_rows(scn) ==
    [i \in 1..Len(scn) |->
        [run |-> RUN_NUMBER,
         scenario |-> scn[i].name,
         avg_ms |-> FormatFloat(scn[i].agg.avg_ms, 3),
         p95_ms |-> FormatFloat(scn[i].agg.p95_ms, 3),
         throughput |-> FormatFloat(scn[i].agg.throughput, 5),
         err_rate |-> FormatFloat(scn[i].agg.err_rate, 3)]]

\* a run that reads the history after its own rows were appended
ReadHistoryAfterAppend ==
    /\ pc = "main"
    /\ result_files # <<>>
    /\ Len(scenarios) = Len(result_files)
    /\ history' = read_history([exists |-> TRUE, rows |-> HISTORY_FILE.rows \o new_rows(scenarios)])
    /\ pc' = "classify"
    /\ UNCHANGED <<RUN_NUMBER, RESULTS_DIR, scenarios, summary, worst_level,
                   HISTORY_FILE, SUMMARY_JSON, SUMMARY_MD, BADGE_SVG, exit_code, pureVars>>

\* history = read_history()
ReadHistory ==
    /\ pc = "main"
    /\ result_files # <<>>
    /\ Len(scenarios) = Len(result_files)
    /\ history' = read_history(HISTORY_FILE)
    /\ pc' = "classify"
    /\ UNCHANGED <<RUN_NUMBER, RESULTS_DIR, scenarios, summary, worst_level,
                   HISTORY_FILE, SUMMARY_JSON, SUMMARY_MD, BADGE_SVG, exit_code, pureVars>>

\* one iteration of: for name, agg in scenarios.items()
ClassifyScenario ==
    /\ pc = "classify"
    /\ Len(summary) < Len(scenarios)
    /\ LET sc == scenarios[Len(summary) + 1]
           base == avg_p95(history, sc.name)
           r == classify(base, sc.agg.p95_ms)
       IN  /\ worst_level' = worse(r.level, worst_level)
           /\ summary' = Append(summary,
                  [name |-> sc.name,
                   avg_ms |-> sc.agg.avg_ms,
                   p95_ms |-> sc.agg.p95_ms,
                   throughput |-> sc.agg.throughput,
                   err_rate |-> sc.agg.err_rate,
                   baseline_p95_ms |-> base,
                   delta_pct_vs_baseline_p95 |-> r.delta_pct,
                   level |-> r.level,
                   note |-> r.note])
    /\ UNCHANGED <<pc, RUN_NUMBER, RESULTS_DIR, scenarios, history,
                   HISTORY_FILE, SUMMARY_JSON, SUMMARY_MD, BADGE_SVG, exit_code, pureVars>>

\* make_badge and the two summary files
WriteSummary ==
    /\ pc = "classify"
    /\ Len(summary) = Len(scenarios)
    /\ BADGE_SVG' = [exists |-> TRUE, color |-> badge_color(worst_level),
                     label |-> badge_text(worst_level)]
    /\ SUMMARY_JSON' = [exists |-> TRUE,
                        overall |-> [level |-> worst_level, badge |-> badge_text(worst_level)],
                        scenarios |-> summary]
    /\ SUMMARY_MD' = [exists |-> TRUE,
                      lines |-> [i \in 1..Len(summary) |->
                                    [name |-> summary[i].name, note |-> summary[i].note]]]
    /\ pc' = "append"
    /\ UNCHANGED <<RUN_NUMBER, RESULTS_DIR, scenarios, history, summary, worst_level,
                   HISTORY_FILE, exit_code, pureVars>>

\* a run that opens history.csv for writing, not for appending
AppendHistoryTruncating ==
    /\ pc = "append"
    /\ HISTORY_FILE' = [exists |-> TRUE, rows |-> new_rows(scenarios)]
    /\ pc' = "exit"
    /\ UNCHANGED <<RUN_NUMBER, RESULTS_DIR, scenarios, history, summary, worst_level,
                   SUMMARY_JSON, SUMMARY_MD, BADGE_SVG, exit_code, pureVars>>

\* append to history: header and rows into a new file, rows onto an existing one
AppendHistory ==
    /\ pc = "append"
    /\ HISTORY_FILE' =
          IF ~HISTORY_FILE.exists
          THEN [exists |-> TRUE, rows |-> new_rows(scenarios)]
          ELSE [exists |-> TRUE, rows |-> HISTORY_FILE.rows \o new_rows(scenarios)]
    /\ pc' = "exit"
    /\ UNCHANGED <<RUN_NUMBER, RESULTS_DIR, scenarios, history, summary, worst_level,
                   SUMMARY_JSON, SUMMARY_MD, BADGE_SVG, exit_code, pureVars>>

\* return 2 if should_block else 0
Exit ==
    /\ pc = "exit"
    /\ exit_code' = IF should_block(summary) THEN 2 ELSE 0
    /\ pc' = "idle"
    /\ UNCHANGED <<RUN_NUMBER, RESULTS_DIR, scenarios, history, summary, worst_level,
                   HISTORY_FILE, SUMMARY_JSON, SUMMARY_MD, BADGE_SVG, pureVars>>

Next ==
    \/ \E dir \in Dirs : Invoke(dir)
    \/ NoResults
    \/ AggregateFile
    \/ ReadHistory
    \/ ClassifyScenario
    \/ WriteSummary
    \/ AppendHistory
    \/ Exit

Spec == Init /\ [][Next]_vars

(***************************************************************************)
(* percentile as a function: lists over PctVals, p a multiple of 5         *)
(***************************************************************************)
PctVals == {10, 20, 30, 40}
Percents == {5 * i : i \in 0..20}

PureSpecInit == RunInit /\ HISTORY_FILE = NoFile /\ PureInit

PctAppend(v) ==
    /\ Len(pValues) < MaxLen
    /\ pValues' = Append(pValues, v)
    /\ pOut' = NoOut
    /\ UNCHANGED <<pP, runVars, clsVars, bslVars, aggVars>>

PctSetP(p) ==
    /\ p # pP
    /\ pP' = p
    /\ pOut' = NoOut
    /\ UNCHANGED <<pValues, runVars, clsVars, bslVars, aggVars>>

PctApply ==
    /\ ~pOut.done
    /\ pOut' = [done |-> TRUE, val |-> percentile(pValues, pP)]
    /\ UNCHANGED <<pValues, pP, runVars, clsVars, bslVars, aggVars>>

PctNext ==
    \/ \E v \in PctVals : PctAppend(v)
    \/ \E p \in Percents : PctSetP(p)
    \/ PctApply

SpecPercentile == PureSpecInit /\ [][PctNext]_vars

Range(s) == {s[i] : i \in 1..Len(s)}
SetMin(S) == CHOOSE x \in S : \A y \in S : x <= y
SetMax(S) == CHOOSE x \in S : \A y \in S : y <= x
\* the i-th smallest element of the list v, by counting
OrderStat(v, i) ==
    CHOOSE x \in Range(v) :
        /\ Cardinality({j \in 1..Len(v) : v[j] < x}) < i
        /\ i <= Cardinality({j \in 1..Len(v) : v[j] <= x})

\* C8: percentile(values, p) is NaN on the empty list; otherwise, with
\* k = (n-1)*p/100, f = floor(k), c = ceil(k), it is the f-th order statistic
\* (counting from 0) when f = c and else sorted[f]*(c-k) + sorted[c]*(k-f); so it
\* is the minimum at p = 0, the maximum at p = 100, 25 for [10,20,30,40] at p = 50,
\* and always between the minimum and the maximum.
C8_Percentile ==
    pOut.done =>
        IF pValues = <<>> THEN isnan(pOut.val)
        ELSE LET n == Len(pValues)
                 k100 == (n - 1) * pP
                 f == k100 \div 100
                 lo == OrderStat(pValues, f + 1)
                 hi == OrderStat(pValues, IF f + 2 <= n THEN f + 2 ELSE n)
                 w == k100 - 100 * f
             IN  /\ pOut.val = Rat(lo * (100 - w) + hi * w, 100)
                 /\ pP = 0 => pOut.val = Num(SetMin(Range(pValues)))
                 /\ pP = 100 => pOut.val = Num(SetMax(Range(pValues)))
                 /\ Le(Num(SetMin(Range(pValues))), pOut.val)
                 /\ Le(pOut.val, Num(SetMax(Range(pValues))))
                 /\ (pValues = <<10, 20, 30, 40>> /\ pP = 50) => pOut.val = Num(25)

C8_Witness ==
    /\ pOut.done
    /\ pValues = <<40, 10, 30, 20>>
    /\ pP = 50
    /\ pOut.val = Num(25)

(***************************************************************************)
(* The classifier as a function of (baseline, current p95)                 *)
(***************************************************************************)
ClsBases == {NaN, Num(-50), Num(0), Num(20), Num(100), Rat(100, 3)}
ClsCurs == {NaN} \cup {Num(c) : c \in 0..MaxCur}

ClsSetBase(b) ==
    /\ b # cBase
    /\ cBase' = b
    /\ cOut' = NoBand
    /\ UNCHANGED <<cCur, runVars, pctVars, bslVars, aggVars>>

ClsSetCur(c) ==
    /\ c # cCur
    /\ cCur' = c
    /\ cOut' = NoBand
    /\ UNCHANGED <<cBase, runVars, pctVars, bslVars, aggVars>>

ClsApply ==
    /\ ~cOut.done
    /\ cOut' = [done |-> TRUE, val |-> classify(cBase, cCur)]
    /\ UNCHANGED <<cBase, cCur, runVars, pctVars, bslVars, aggVars>>

ClsNext ==
    \/ \E b \in ClsBases : ClsSetBase(b)
    \/ \E c \in ClsCurs : ClsSetCur(c)
    \/ ClsApply

SpecClassify == PureSpecInit /\ [][ClsNext]_vars

\* (cur - base) / base * 100 > t, for base > 0, without dividing
Exceeds(base, cur, t) ==
    (cur.num * base.den - base.num * cur.den) * 100 > t * base.num * cur.den

\* C1: no baseline (NaN or <= 0) or a NaN current p95 gives green / "no baseline"
\* with an undefined deltaPct; otherwise deltaPct = (current - baseline) /
\* baseline * 100, and the first of deltaPct > 20, > 10, > 5 that holds gives
\* red/BLOCK, red/RED, yellow/YELLOW, and none gives green/OK; the comparisons are
\* strict (baseline 100, current 105 is green/OK) and a non-positive deltaPct is
\* green/OK.
C1_Classification ==
    cOut.done =>
        LET o == cOut.val IN
        IF isnan(cBase) \/ cBase.num <= 0 \/ isnan(cCur)
        THEN o = Band(NaN, "green", "no baseline")
        ELSE /\ o.delta_pct =
                    Rat((cCur.num * cBase.den - cBase.num * cCur.den) * 100,
                        cBase.num * cCur.den)
             /\ <<o.level, o.note>> =
                    IF Exceeds(cBase, cCur, 20) THEN <<"red", "BLOCK (>20%)">>
                    ELSE IF Exceeds(cBase, cCur, 10) THEN <<"red", "RED (>10%)">>
                    ELSE IF Exceeds(cBase, cCur, 5) THEN <<"yellow", "YELLOW (>5%)">>
                    ELSE <<"green", "OK">>
             /\ (cBase = Num(100) /\ cCur = Num(105)) => o = Band(Num(5), "green", "OK")
             /\ Le(cCur, cBase) => o.note = "OK" /\ o.level = "green"

C1_Witness ==
    /\ cOut.done
    /\ cBase = Num(100)
    /\ cCur = Num(105)
    /\ cOut.val = Band(Num(5), "green", "OK")

(***************************************************************************)
(* The baseline as a function of (history, scenario)                       *)
(***************************************************************************)
Target == "http-search"
HistRec(scenario, p95) ==
    [run |-> 0, scenario |-> scenario, avg_ms |-> p95, p95_ms |-> p95,
     throughput |-> Num(0), err_rate |-> Num(0)]

\* indices of the records of h that enter the baseline of a scenario
ValidAt(h, name) ==
    {i \in 1..Len(h) : h[i].scenario = name /\ h[i].p95_ms.k = "num" /\ h[i].p95_ms.num > 0}

\* records that do not: another scenario's, a NaN p95, a zero p95
NoiseRecs == {HistRec("log-ingest", Num(1000)), HistRec(Target, NaN), HistRec(Target, Num(0))}

\* the n-th matching record has p95 = its position in the list
BslAppendValid ==
    /\ Len(bHist) < MaxHist
    /\ bHist' = Append(bHist, HistRec(Target, Num(Len(bHist) + 1)))
    /\ bOut' = NoOut
    /\ UNCHANGED <<runVars, pctVars, clsVars, aggVars>>

BslAppendNoise(rec) ==
    /\ Len(bHist) < MaxHist
    /\ Len(bHist) - Cardinality(ValidAt(bHist, Target)) < MaxNoise
    /\ bHist' = Append(bHist, rec)
    /\ bOut' = NoOut
    /\ UNCHANGED <<runVars, pctVars, clsVars, aggVars>>

BslApply ==
    /\ ~bOut.done
    /\ bOut' = [done |-> TRUE, val |-> avg_p95(bHist, Target)]
    /\ UNCHANGED <<bHist, runVars, pctVars, clsVars, aggVars>>

BslNext ==
    \/ BslAppendValid
    \/ \E rec \in NoiseRecs : BslAppendNoise(rec)
    \/ BslApply

SpecBaseline == PureSpecInit /\ [][BslNext]_vars

RECURSIVE SumP95(_, _)
SumP95(h, I) ==
    IF I = {} THEN Num(0)
    ELSE LET i == CHOOSE j \in I : TRUE
         IN  Add(h[i].p95_ms, SumP95(h, I \ {i}))

\* the mean of the p95 of the last Window valid matching records of h
BaselineOf(h, name) ==
    LET valid == ValidAt(h, name)
        last == {i \in valid : Cardinality({j \in valid : j > i}) < Window}
    IN  IF valid = {} THEN NaN
        ELSE Div(SumP95(h, last), Num(Cardinality(last)))

\* C3: the baseline of a scenario is the mean of the p95 of the last 10 records,
\* in stored order, that match the scenario and have a p95 that is a number > 0;
\* other records are dropped before the window is taken; it is NaN when there is no
\* such record; 15 matching records of p95 1..15 give 10.5.
C3_Baseline ==
    bOut.done =>
        /\ bOut.val = BaselineOf(bHist, Target)
        /\ ValidAt(bHist, Target) = {} => isnan(bOut.val)
        /\ (Len(bHist) = 15 /\ Cardinality(ValidAt(bHist, Target)) = 15)
              => bOut.val = Rat(21, 2)

\* more than Window valid records, and a dropped record among the last Window
C3_Witness ==
    /\ bOut.done
    /\ Cardinality(ValidAt(bHist, Target)) > Window
    /\ \E i \in 1..Len(bHist) : i > Len(bHist) - Window /\ i \notin ValidAt(bHist, Target)
    /\ ~isnan(bOut.val)

(***************************************************************************)
(* Reading and aggregating one result file, as a function of its rows      *)
(***************************************************************************)
RawRows == [elapsed : {"100", "250", "abc", ""}, success : SuccessText, label : {"search", ""}]

AggAppend(row) ==
    /\ Len(aRows) < MaxRows
    /\ aRows' = Append(aRows, row)
    /\ aOut' = NoAggregate
    /\ UNCHANGED <<runVars, pctVars, clsVars, bslVars>>

AggApply ==
    /\ ~aOut.done
    /\ aOut' = [done |-> TRUE, val |-> aggregate_samples(read_jmeter_csv(aRows))]
    /\ UNCHANGED <<aRows, runVars, pctVars, clsVars, bslVars>>

AggNext ==
    \/ \E row \in RawRows : AggAppend(row)
    \/ AggApply

SpecAggregate == PureSpecInit /\ [][AggNext]_vars

RemoveAt(s, i) == SubSeq(s, 1, i - 1) \o SubSeq(s, i + 1, Len(s))
AggregateOf(rows) == aggregate_samples(read_jmeter_csv(rows))

\* C4 as stated: a record with an unparseable elapsed value, a missing success
\* field or a missing label field is skipped: the aggregate equals the aggregate
\* of the rows without it.
C4_MalformedSkipped ==
    aOut.done =>
        \A i \in 1..Len(aRows) :
            (aRows[i].elapsed = "abc" \/ aRows[i].success = "" \/ aRows[i].label = "")
                => aOut.val = AggregateOf(RemoveAt(aRows, i))

\* C4 as amended: only a record whose elapsed text is not a number is skipped (the
\* aggregate equals that of the rows without it); a record with a missing success
\* field is kept and counted as an error, one with a missing label is kept, and
\* one with an empty elapsed field is kept with elapsed 0.
C4_UnparseableSkipped ==
    aOut.done =>
        LET kept == {i \in 1..Len(aRows) : aRows[i].elapsed # "abc"}
            failed == {i \in kept : aRows[i].success # "true"}
        IN  /\ \A i \in 1..Len(aRows) :
                    aRows[i].elapsed = "abc" => aOut.val = AggregateOf(RemoveAt(aRows, i))
            /\ aOut.val.count = Cardinality(kept)
            /\ aOut.val.errors = Cardinality(failed)
            /\ aOut.val.success = Cardinality(kept \ failed)
            /\ kept # {} => aOut.val.err_rate = Rat(100 * Cardinality(failed), Cardinality(kept))

\* an unparseable record between two good ones, one of them without success
C4_Witness ==
    /\ aOut.done
    /\ Len(aRows) = 2
    /\ aRows[1].elapsed = "abc"
    /\ aRows[2] = [elapsed |-> "100", success |-> "", label |-> ""]
    /\ aOut.val.count = 1
    /\ aOut.val.errors = 1

(***************************************************************************)
(* Properties of a sequence of runs                                        *)
(***************************************************************************)
\* main() has returned from a run that found result files
Completed == pc = "idle" /\ exit_code >= 0 /\ result_files # <<>>

\* C2: a run exits with 2 exactly when one of its scenarios has the note
\* "BLOCK (>20%)", and with 0 otherwise, also when its overall level is red.
C2_Gating ==
    (pc = "idle" /\ RUN_NUMBER > 0) =>
        /\ exit_code \in {0, 2}
        /\ exit_code = 2 <=> \E i \in 1..Len(summary) : summary[i].note = "BLOCK (>20%)"
        /\ Completed => SUMMARY_JSON.scenarios = summary

\* a run whose overall level is red and that does not block
C2_Witness ==
    /\ Completed
    /\ exit_code = 0
    /\ worst_level = "red"
    /\ \E i \in 1..Len(summary) : summary[i].note = "RED (>10%)"

LabelsOf(name) ==
    {s.label : s \in Range(read_jmeter_csv(RESULTS_DIR[name].rows))}

\* C5 as stated: one aggregate per distinct sample label of the run, no aggregate
\* over samples of two labels, no label split over two aggregates.
C5_PerLabel ==
    pc = "classify" =>
        /\ Len(scenarios) = Cardinality(UNION {LabelsOf(n) : n \in Range(result_files)})
        /\ \A n \in Range(result_files) : Cardinality(LabelsOf(n)) <= 1
        /\ \A n1, n2 \in Range(result_files) : n1 # n2 => LabelsOf(n1) \cap LabelsOf(n2) = {}

RECURSIVE SumElapsed(_, _)
SumElapsed(rows, I) ==
    IF I = {} THEN 0
    ELSE LET i == CHOOSE j \in I : TRUE
         IN  (IF rows[i].elapsed = "" THEN 0 ELSE float(rows[i].elapsed))
                 + SumElapsed(rows, I \ {i})

\* C5 as amended: a run produces one aggregate and one classification per result
\* file, named by the file's stem, and the aggregate is computed from all the
\* samples read from that one file, whatever their labels.
C5_PerFile ==
    /\ Len(scenarios) <= Len(result_files)
    /\ Len(summary) <= Len(scenarios)
    /\ pc \in {"classify", "append", "exit"} \/ Completed => Len(scenarios) = Len(result_files)
    /\ pc \in {"append", "exit"} \/ Completed => Len(summary) = Len(result_files)
    /\ \A i \in 1..Len(summary) : summary[i].name = result_files[i]
    /\ \A i \in 1..Len(scenarios) :
          LET rows == RESULTS_DIR[result_files[i]].rows
              kept == {j \in 1..Len(rows) : rows[j].elapsed \in NumericText \cup {""}}
              agg == scenarios[i].agg
          IN  /\ scenarios[i].name = result_files[i]
              /\ agg.count = Cardinality(kept)
              /\ agg.errors = Cardinality({j \in kept : rows[j].success # "true"})
              /\ kept # {} => agg.avg_ms = Rat(SumElapsed(rows, kept), Cardinality(kept))

\* two files that share a label, the first with samples of two labels
C5_Witness ==
    /\ pc = "classify"
    /\ Len(scenarios) = 2
    /\ LabelsOf("http-search") = {"search", "ingest"}
    /\ "search" \in LabelsOf("log-ingest")
    /\ scenarios[1].agg.count = 2
    /\ scenarios[2].agg.count = 1

LevelsOf(scn) == {scn[i].level : i \in 1..Len(scn)}
WorstOf(levels) ==
    IF "red" \in levels THEN "red" ELSE IF "yellow" \in levels THEN "yellow" ELSE "green"

\* C6: the overall level is the maximum of the scenario levels under green <
\* yellow < red, in whatever order they were classified, and the badge text is
\* ALERT for red, WARN for yellow, OK for green.
C6_OverallLevel ==
    /\ worst_level = WorstOf(LevelsOf(summary))
    /\ pc \in {"append", "exit"} \/ Completed =>
          LET worst == WorstOf(LevelsOf(summary))
              text == IF worst = "red" THEN "ALERT" ELSE IF worst = "yellow" THEN "WARN" ELSE "OK"
          IN  /\ SUMMARY_JSON.overall = [level |-> worst, badge |-> text]
              /\ BADGE_SVG.label = text

\* a red scenario classified before a green one
C6_Witness ==
    /\ pc = "append"
    /\ Len(summary) = 2
    /\ summary[1].level = "red"
    /\ summary[2].level = "green"
    /\ worst_level = "red"
    /\ BADGE_SVG.label = "ALERT"

\* C7: a run that finds no result file writes no summary, leaves the history (and
\* the badge) as they are, and returns 0.
C7_NoResultsNoOp ==
    [][(pc = "main" /\ result_files = <<>>) =>
          /\ pc' = "idle"
          /\ exit_code' = 0
          /\ UNCHANGED <<HISTORY_FILE, SUMMARY_JSON, SUMMARY_MD, BADGE_SVG>>]_vars

\* an empty run after a run that wrote a summary and a history
C7_Witness ==
    /\ pc = "idle"
    /\ exit_code = 0
    /\ result_files = <<>>
    /\ RUN_NUMBER = 2
    /\ SUMMARY_JSON.exists
    /\ \E i \in 1..Len(HISTORY_FILE.rows) : HISTORY_FILE.rows[i].run = 1

RowsOfRun(file, run) == {i \in 1..Len(file.rows) : file.rows[i].run = run}

\* C9: the history changes only by the append of a run that found result files;
\* the append keeps every earlier row in place and adds, after them, one row per
\* scenario of the run with that run's aggregate as formatted; every such run
\* appends before it exits, whatever its exit code.
C9_AppendOnly ==
    [][/\ pc # "append" => HISTORY_FILE' = HISTORY_FILE
       /\ pc = "append" =>
             LET old == HISTORY_FILE.rows
                 new == HISTORY_FILE'.rows
             IN  /\ HISTORY_FILE'.exists
                 /\ Len(new) = Len(old) + Len(scenarios)
                 /\ Len(scenarios) = Len(result_files)
                 /\ SubSeq(new, 1, Len(old)) = old
                 /\ \A i \in 1..Len(scenarios) :
                       LET r == new[Len(old) + i]
                           agg == scenarios[i].agg
                       IN  /\ r.run = RUN_NUMBER
                           /\ r.scenario = scenarios[i].name
                           /\ r.p95_ms = FormatFloat(agg.p95_ms, 3)
                           /\ r.avg_ms = FormatFloat(agg.avg_ms, 3)
                           /\ r.throughput = FormatFloat(agg.throughput, 5)
                           /\ r.err_rate = FormatFloat(agg.err_rate, 3)
       /\ pc = "exit" =>
             /\ Cardinality(RowsOfRun(HISTORY_FILE, RUN_NUMBER)) = Len(result_files)
             /\ exit_code' \in {0, 2}]_vars

\* a blocked run whose regressed p95 is in the history, and in the baseline of the
\* next run
C9_Witness ==
    /\ Completed
    /\ RUN_NUMBER = 2
    /\ \E i \in RowsOfRun(HISTORY_FILE, 1) :
          /\ HISTORY_FILE.rows[i].scenario = "http-search"
          /\ HISTORY_FILE.rows[i].p95_ms = Rat(257, 2)
    /\ summary[1].name = "http-search"
    /\ summary[1].baseline_p95_ms = Rat(457, 4)

\* C10: the baseline that classifies a scenario is that of the history rows of
\* earlier runs: the history is read before the rows of the run are appended, and
\* no row of the run enters any baseline of the run; a scenario with no earlier
\* valid row, as on a missing or empty history, is classified "no baseline".
C10_BaselineFromEarlierRuns ==
    LET earlier == SelectSeq(HISTORY_FILE.rows, LAMBDA r : r.run < RUN_NUMBER /\ RowParses(r))
    IN  /\ pc \in {"main", "classify"} => RowsOfRun(HISTORY_FILE, RUN_NUMBER) = {}
        /\ \A i \in 1..Len(summary) :
              /\ summary[i].baseline_p95_ms = BaselineOf(earlier, summary[i].name)
              /\ ValidAt(earlier, summary[i].name) = {} => summary[i].note = "no baseline"

\* a scenario classified against a baseline, after its own row was appended
C10_Witness ==
    /\ Completed
    /\ summary[1].baseline_p95_ms = Num(100)
    /\ summary[1].p95_ms = Num(115)
    /\ \E i \in RowsOfRun(HISTORY_FILE, RUN_NUMBER) :
          HISTORY_FILE.rows[i].scenario = summary[1].name

====
